---- MODULE Spec2Model ----
(***************************************************************************)
(* GridX microgrid dashboard: the periodic metric generation and the       *)
(* threshold alerting of src/unnamed/part_000 (the converter-aware         *)
(* variant) and src/script.js (the baseline variant).                      *)
(*                                                                         *)
(* JavaScript numbers are modelled as exact rationals [n |-> _, d |-> _]   *)
(* in lowest terms with d > 0; Math.random() is an input drawn from a      *)
(* grid k / RandDen, 0 <= k < RandDen; Date.now() is the variable now, in  *)
(* milliseconds, and the local hour is read from it (time zone UTC).       *)
(***************************************************************************)
EXTENDS Integers, Sequences, FiniteSets, TLC

VARIABLES
    systemAlerts,   \* the alert store, index 1 is JavaScript's index 0
    chartData,      \* [labels, generation, consumption], three sequences
    now,            \* Date.now() in ms
    storageText,    \* textContent of #storage-value: [num, val]
    reading,        \* the last value returned by generateSensorData
    phase,          \* "loaded" before DOMContentLoaded, then "running"
    ticks,          \* number of interval callbacks run so far
    ingests,        \* number of updateDashboardWithRealData calls so far
    calls,          \* number of calls from outside the timer so far
    display,        \* what the script wrote to the metric cards and gauges
    dom,            \* the sinks of the page that exist
    script,         \* the file the page loads: "part_000" or "script.js"
    last            \* what the last step did (history, for the properties)

vars == <<systemAlerts, chartData, now, storageText, reading, phase, ticks,
          ingests, calls, display, dom, script, last>>

----------------------------------------------------------------------------
(* Bounds of the exploration *)

\* Math.random() returns k / GenDen in the specification of the generator
GenDen == 3
\* interval callbacks explored by Spec
MaxTicks == 2
\* calls from outside the timer (dismissAlert, clearAlerts, the exported
\* checkConverterAlerts) explored by Spec
MaxCalls == 2
\* ingests (updateDashboardWithRealData) explored by SpecChart
MaxIngests == 2
\* interval callbacks explored by SpecChart: more than MAX_DATA_POINTS
MaxChartTicks == 21
\* direct calls of the exported checkConverterAlerts explored by SpecEval
MaxEvalCalls == 1
\* interval callbacks and ingests explored by SpecBattery
MaxBatteryTicks == 2
MaxBatteryIngests == 1
\* interval callbacks and ingests explored by SpecIngest
MaxIngestTicks == 1
MaxIngestCalls == 2
\* interval callbacks explored by SpecSinks
MaxSinkTicks == 1
\* interval callbacks and calls of dismissAlert and clearAlerts explored by
\* SpecStore
MaxStoreTicks == 3
MaxStoreCalls == 1
\* interval callbacks explored by SpecGrowth
MaxGrowthTicks == 2

----------------------------------------------------------------------------
(* Rational arithmetic: the model of JavaScript's number operations *)

RECURSIVE GCD(_, _)
GCD(a, b) == IF b = 0 THEN a ELSE GCD(b, a % b)

Abs(i) == IF i < 0 THEN -i ELSE i

R(n, d) ==
    LET s == IF d < 0 THEN -1 ELSE 1
        g == GCD(Abs(n), Abs(d))
    IN  [n |-> s * (n \div g), d |-> s * (d \div g)]

RInt(i) == [n |-> i, d |-> 1]

RAdd(a, b) ==
    LET g == GCD(a.d, b.d)
    IN  R(a.n * (b.d \div g) + b.n * (a.d \div g), (a.d \div g) * b.d)

RNeg(a) == [n |-> -a.n, d |-> a.d]

RSub(a, b) == RAdd(a, RNeg(b))

RMul(a, b) ==
    LET g1 == GCD(Abs(a.n), b.d)
        g2 == GCD(Abs(b.n), a.d)
    IN  R((a.n \div g1) * (b.n \div g2), (a.d \div g2) * (b.d \div g1))

RDiv(a, b) == RMul(a, R(b.d, b.n))

RLt(a, b) == RSub(a, b).n < 0

RLe(a, b) == RSub(a, b).n <= 0

RAbs(a) == [n |-> Abs(a.n), d |-> a.d]

\* Math.max, Math.min
RMax(a, b) == IF RLt(a, b) THEN b ELSE a

RMin(a, b) == IF RLt(b, a) THEN b ELSE a

\* Math.floor
Floor(a) == a.n \div a.d

\* Math.round(x) = floor(x + 0.5): one above the floor from the half on
Round(a) ==
    IF (a.n % a.d) >= a.d - (a.n % a.d) THEN (a.n \div a.d) + 1 ELSE a.n \div a.d

\* Math.round(x * 10) / 10
Round1(a) == R(Round(RMul(a, RInt(10))), 10)

----------------------------------------------------------------------------
(* Configuration, src/unnamed/part_000 lines 44-57 (script.js 49-55 has    *)
(* the first five entries with the same values)                            *)

CONFIG == [
    UPDATE_INTERVAL      |-> 5000,
    MAX_DATA_POINTS      |-> 20,
    GENERATION_RANGE     |-> [min |-> R(85, 10),  max |-> R(152, 10)],
    CONSUMPTION_RANGE    |-> [min |-> R(68, 10),  max |-> R(125, 10)],
    BATTERY_RANGE        |-> [min |-> RInt(45),   max |-> RInt(95)],
    INPUT_VOLTAGE_RANGE  |-> [min |-> RInt(10),   max |-> RInt(15)],
    OUTPUT_VOLTAGE_RANGE |-> [min |-> RInt(20),   max |-> RInt(28)],
    INPUT_CURRENT_RANGE  |-> [min |-> RInt(1),    max |-> RInt(4)],
    OUTPUT_CURRENT_RANGE |-> [min |-> R(8, 10),   max |-> R(25, 10)],
    EFFICIENCY_RANGE     |-> [min |-> RInt(85),   max |-> RInt(96)],
    DUTY_CYCLE_RANGE     |-> [min |-> RInt(40),   max |-> RInt(65)] ]

----------------------------------------------------------------------------
(* The signal generator *)

\* the values of Math.random() explored where an alert is made: 0 passes
\* the test of line 193, picks the first catalog entry and adds 0 to the
\* id; 1/2 fails the test, picks the fourth entry and adds 500
RandomDraws == { RInt(0), R(1, 2) }

\* Date.getHours(), with the local time zone taken as UTC
getHours(t) == (t \div 3600000) % 24

\* Math.sin(k * Math.PI / 12) for k = 0 .. 12, to four decimals
solarFactor(hour) ==
    LET tab == <<0, 2588, 5000, 7071, 8660, 9659, 10000,
                 9659, 8660, 7071, 5000, 2588, 0>>
    IN  R(tab[hour - 6 + 1], 10000)

\* (Math.random() - 0.5) * 2
noise(r) == RMul(RSub(r, R(1, 2)), RInt(2))

\* parseInt(storageEl.textContent, 10) || 75 : NaN and 0 are falsy.  The
\* text is [num |-> whether parseInt finds a number, val |-> that number]
currentBatteryOf(text) == IF ~text.num \/ text.val = 0 THEN 75 ELSE text.val

\* generation of lines 390-398 (before the Math.max(0, _) of line 450)
generationOf(hour, r) ==
    LET range == CONFIG.GENERATION_RANGE
        generationBase ==
            IF hour >= 6 /\ hour <= 18
            THEN RAdd(range.min, RMul(RSub(range.max, range.min), solarFactor(hour)))
            ELSE range.min
    IN  RAdd(generationBase, noise(r))

\* consumption of lines 401-407
consumptionOf(hour, r) ==
    LET range == CONFIG.CONSUMPTION_RANGE
        consumptionBase ==
            IF hour >= 7 /\ hour <= 22
            THEN RAdd(range.min, RMul(RSub(range.max, range.min), R(7, 10)))
            ELSE range.min
    IN  RAdd(consumptionBase, noise(r))

\* a variant of batteryLevelOf that applies only the lower end of
\* BATTERY_RANGE
batteryLevelNoCeiling(text, generation, consumption) ==
    LET currentBattery == RInt(currentBatteryOf(text))
        energyBalance  == RSub(generation, consumption)
        newBatteryLevel == RAdd(currentBattery, RMul(energyBalance, RInt(2)))
    IN  Round(RMax(CONFIG.BATTERY_RANGE.min, newBatteryLevel))

\* lines 409-417 and 452: the battery level of the reading
batteryLevelOf(text, generation, consumption) ==
    LET currentBattery == RInt(currentBatteryOf(text))
        energyBalance  == RSub(generation, consumption)
        newBatteryLevel == RAdd(currentBattery, RMul(energyBalance, RInt(2)))
        clamped == RMax(CONFIG.BATTERY_RANGE.min,
                        RMin(CONFIG.BATTERY_RANGE.max, newBatteryLevel))
    IN  Round(clamped)

\* lines 420-422
inputVoltageOf(r) ==
    LET range == CONFIG.INPUT_VOLTAGE_RANGE
    IN  RAdd(range.min,
             RMul(RSub(range.max, range.min), RAdd(R(8, 10), RMul(r, R(4, 10)))))

\* a variant of outputVoltageOf that stays within 0.4 V of the target 24 V
outputVoltageRegulated(r) ==
    RAdd(RInt(24), RMul(RSub(r, R(1, 2)), R(8, 10)))

\* lines 424-426
outputVoltageOf(r) ==
    LET range == CONFIG.OUTPUT_VOLTAGE_RANGE
    IN  RAdd(range.min,
             RMul(RSub(range.max, range.min), RAdd(R(7, 10), RMul(r, R(3, 10)))))

\* lines 428-430
inputCurrentOf(consumption) ==
    LET range == CONFIG.INPUT_CURRENT_RANGE
    IN  RAdd(range.min,
             RMul(RSub(range.max, range.min),
                  RDiv(consumption, CONFIG.CONSUMPTION_RANGE.max)))

\* line 432
outputCurrentOf(inputCurrent, inputVoltage, outputVoltage) ==
    RMul(RMul(inputCurrent, RDiv(inputVoltage, outputVoltage)), R(92, 100))

\* a variant of outputPowerOf that applies the factor 0.92 of line 432 once
\* more
outputPowerDerated(outputVoltage, outputCurrent) ==
    RMul(RMul(outputVoltage, outputCurrent), R(92, 100))

\* line 434
outputPowerOf(outputVoltage, outputCurrent) == RMul(outputVoltage, outputCurrent)

\* lines 437-439
dutyCycleOf(inputVoltage, outputVoltage) ==
    RMin(CONFIG.DUTY_CYCLE_RANGE.max,
         RMax(CONFIG.DUTY_CYCLE_RANGE.min,
              RMul(RSub(RInt(1), RDiv(inputVoltage, outputVoltage)), RInt(100))))

\* a variant of converterEfficiencyOf that loses the whole distance of the
\* load from the optimum rather than a tenth of it, and has no floor
converterEfficiencyUnderLoad(outputCurrent, r) ==
    LET baseEfficiency == CONFIG.EFFICIENCY_RANGE.max
        loadFactor     == RDiv(outputCurrent, CONFIG.OUTPUT_CURRENT_RANGE.max)
        optimalLoad    == R(7, 10)
        loadEfficiency == RSub(RInt(1), RAbs(RSub(loadFactor, optimalLoad)))
    IN  RAdd(RMul(baseEfficiency, loadEfficiency), noise(r))

\* lines 442-447: only the lower end of EFFICIENCY_RANGE is applied
converterEfficiencyOf(outputCurrent, r) ==
    LET baseEfficiency == CONFIG.EFFICIENCY_RANGE.max
        loadFactor     == RDiv(outputCurrent, CONFIG.OUTPUT_CURRENT_RANGE.max)
        optimalLoad    == R(7, 10)
        loadEfficiency == RSub(RInt(1),
                               RMul(RAbs(RSub(loadFactor, optimalLoad)), R(1, 10)))
    IN  RMax(CONFIG.EFFICIENCY_RANGE.min,
             RAdd(RMul(baseEfficiency, loadEfficiency), noise(r)))

\* generateSensorData of part_000, lines 383-466.  rnd is the sequence of
\* the six values Math.random() returns, in call order (lines 398, 407,
\* 422, 426, 447, 454); t is the value of new Date(); text is the content
\* of #storage-value
generateSensorData(t, rnd, text) ==
    LET hour          == getHours(t)
        generation    == generationOf(hour, rnd[1])
        consumption   == consumptionOf(hour, rnd[2])
        inputVoltage  == inputVoltageOf(rnd[3])
        outputVoltage == outputVoltageOf(rnd[4])
        inputCurrent  == inputCurrentOf(consumption)
        outputCurrent == outputCurrentOf(inputCurrent, inputVoltage, outputVoltage)
        outputPower   == outputPowerOf(outputVoltage, outputCurrent)
        dutyCycle     == dutyCycleOf(inputVoltage, outputVoltage)
        converterEfficiency == converterEfficiencyOf(outputCurrent, rnd[5])
    IN  [ generation   |-> RMax(RInt(0), generation),
          consumption  |-> RMax(RInt(0), consumption),
          batteryLevel |-> batteryLevelOf(text, generation, consumption),
          timestamp    |-> t,
          efficiency   |-> Round(RAdd(RInt(92), RMul(rnd[6], RInt(6)))),
          converter    |-> [
              inputVoltage  |-> Round1(inputVoltage),
              outputVoltage |-> Round1(outputVoltage),
              inputCurrent  |-> Round1(inputCurrent),
              outputCurrent |-> Round1(outputCurrent),
              outputPower   |-> Round1(outputPower),
              dutyCycle     |-> Round1(dutyCycle),
              efficiency    |-> Round1(converterEfficiency) ] ]


----------------------------------------------------------------------------
(* IEEE-754 doubles, where the code compares at a decimal boundary.        *)
(* A decimal such as 24.48 or 0.48 is no double: the number the program    *)
(* holds is the nearest double.  For a rational x = n/d in lowest terms    *)
(* whose d is not a power of two, with 2^e <= x < 2^(e+1) and p = 52 - e,  *)
(* the nearest double is x + DoubleError(x) * 2^-p / d  (no tie occurs:    *)
(* a tie would need the odd part of d to divide n).                        *)

RECURSIVE Pow2Mod(_, _)
Pow2Mod(p, m) == IF p = 0 THEN 1 % m ELSE (2 * Pow2Mod(p - 1, m)) % m

RECURSIVE Pow2(_)
Pow2(p) == IF p = 0 THEN 1 ELSE 2 * Pow2(p - 1)

RECURSIVE BinaryExponent(_)
BinaryExponent(x) ==
    IF RLe(RInt(2), x) THEN BinaryExponent(RDiv(x, RInt(2))) + 1
    ELSE IF RLt(x, RInt(1)) THEN BinaryExponent(RMul(x, RInt(2))) - 1
    ELSE 0

UlpExponent(x) == 52 - BinaryExponent(x)

DoubleError(x) ==
    LET m == (x.n * Pow2Mod(UlpExponent(x), x.d)) % x.d
    IN  IF 2 * m < x.d THEN -m ELSE x.d - m

\* Math.abs(value - target) > tolerance on doubles, for value > 0, an
\* integer target and 0 < tolerance <= value.  value - target is exact in
\* double arithmetic (both are multiples of the ulp of value and the
\* result is smaller than value), so only the representation errors of
\* value and of tolerance enter, and they decide the comparison only when
\* the decimals are exactly tolerance apart.
absDiffExceeds(value, target, tolerance) ==
    LET exact == RSub(RAbs(RSub(value, target)), tolerance)
        s  == IF RLt(value, target) THEN -1 ELSE 1
        pv == UlpExponent(value)
        pt == UlpExponent(tolerance)
    IN  IF exact.n # 0 THEN exact.n > 0
        ELSE s * DoubleError(value) * Pow2(pt - pv) * tolerance.d
                 > DoubleError(tolerance) * value.d

----------------------------------------------------------------------------
(* The alert store and the converter alert evaluator *)

NoValue == RInt(0)

\* a variant of seededAlerts with the same alerts, the oldest first
seededAlertsOldestFirst(t) == <<
    [ id |-> 3, type |-> "info", title |-> "Duty Cycle Optimization",
      description |-> [text |-> "System operating at optimal duty cycle.",
                       value |-> NoValue],
      timestamp |-> t - 86400000, severity |-> "low" ],
    [ id |-> 2, type |-> "error", title |-> "Output Voltage Regulation",
      description |-> [text |-> "Output voltage showing fluctuations beyond 2% tolerance.",
                       value |-> NoValue],
      timestamp |-> t - 7200000, severity |-> "high" ],
    [ id |-> 1, type |-> "warning", title |-> "DC-DC Converter Efficiency Low",
      description |-> [text |-> "Boost converter efficiency has dropped to 89%.",
                       value |-> NoValue],
      timestamp |-> t - 3600000, severity |-> "medium" ] >>

\* the alerts the script holds when it is loaded, part_000 lines 16-41
seededAlerts(t) == <<
    [ id |-> 1, type |-> "warning", title |-> "DC-DC Converter Efficiency Low",
      description |-> [text |-> "Boost converter efficiency has dropped to 89%.",
                       value |-> NoValue],
      timestamp |-> t - 3600000, severity |-> "medium" ],
    [ id |-> 2, type |-> "error", title |-> "Output Voltage Regulation",
      description |-> [text |-> "Output voltage showing fluctuations beyond 2% tolerance.",
                       value |-> NoValue],
      timestamp |-> t - 7200000, severity |-> "high" ],
    [ id |-> 3, type |-> "info", title |-> "Duty Cycle Optimization",
      description |-> [text |-> "System operating at optimal duty cycle.",
                       value |-> NoValue],
      timestamp |-> t - 86400000, severity |-> "low" ] >>

\* the comparison of line 334
efficiencyTooLow(efficiency) == RLt(efficiency, RInt(85))

\* the comparison of line 346, on doubles
voltageOutOfRange(outputVoltage) ==
    LET targetVoltage    == RInt(24)
        voltageTolerance == R(48, 100)
    IN  absDiffExceeds(outputVoltage, targetVoltage, voltageTolerance)

\* the comparison of line 356
dutyCycleTooHigh(dutyCycle) == RLt(RInt(90), dutyCycle)

\* the local array alerts of checkConverterAlerts, lines 331-363
converterDrafts(converterData) ==
    (IF efficiencyTooLow(converterData.efficiency)
     THEN << [ type |-> "error", title |-> "Critical Efficiency Drop",
               description |-> [text |-> "Converter efficiency at _%. Check components.",
                                value |-> converterData.efficiency],
               severity |-> "high" ] >>
     ELSE << >>)
    \o
    (IF voltageOutOfRange(converterData.outputVoltage)
     THEN << [ type |-> "warning", title |-> "Output Voltage Out of Range",
               description |-> [text |-> "Output voltage _V outside 2% tolerance.",
                                value |-> converterData.outputVoltage],
               severity |-> "medium" ] >>
     ELSE << >>)
    \o
    (IF dutyCycleTooHigh(converterData.dutyCycle)
     THEN << [ type |-> "error", title |-> "Critical Duty Cycle",
               description |-> [text |-> "Duty cycle at _%. Risk of instability.",
                                value |-> converterData.dutyCycle],
               severity |-> "high" ] >>
     ELSE << >>)

\* Math.floor(Math.random() * 1000)
idOffset(r) == Floor(RMul(r, RInt(1000)))

\* the object built at lines 367-371 (and 195-199)
newAlert(draft, t, r) ==
    [ id |-> t + idOffset(r), type |-> draft.type, title |-> draft.title,
      description |-> draft.description, severity |-> draft.severity,
      timestamp |-> t ]

\* a variant of unshift that adds behind the first element, as
\* splice(1, 0, alert) does
unshiftSecond(store, alert) ==
    IF store = << >> THEN <<alert>>
    ELSE <<Head(store), alert>> \o Tail(store)

\* a variant of unshift that adds at the end, as push does
unshiftAtEnd(store, alert) == store \o <<alert>>

\* Array.prototype.unshift with one argument
unshift(store, alert) == <<alert>> \o store

\* a variant of addAlerts with one unshift for all drafts, as
\* systemAlerts.unshift(...alerts) does: the first draft ends up first
addAlertsTogether(store, drafts, t, rs) ==
    [ i \in 1 .. Len(drafts) |-> newAlert(drafts[i], t, rs[i]) ] \o store

\* the forEach of lines 366-373: one unshift per draft, in draft order;
\* rs holds the values of Math.random(), one per draft
RECURSIVE addAlerts(_, _, _, _)
addAlerts(store, drafts, t, rs) ==
    IF drafts = << >> THEN store
    ELSE addAlerts(unshift(store, newAlert(Head(drafts), t, Head(rs))),
                   Tail(drafts), t, Tail(rs))

\* a variant of checkConverterAlerts that skips a draft whose title an alert
\* of the store carries
checkConverterAlertsOnce(store, converterData, t, rs) ==
    LET fresh(draft) == \A i \in 1 .. Len(store) : store[i].title # draft.title
    IN  addAlerts(store, SelectSeq(converterDrafts(converterData), fresh), t, rs)

\* a variant of checkConverterAlerts that first sets the timestamp of the
\* alerts of the store that carry the title of a draft to the time of the
\* call
checkConverterAlertsRefreshing(store, converterData, t, rs) ==
    LET drafts == converterDrafts(converterData)
        raised(alert) == \E i \in 1 .. Len(drafts) : drafts[i].title = alert.title
    IN  addAlerts([ i \in 1 .. Len(store) |->
                      IF raised(store[i]) THEN [ store[i] EXCEPT !.timestamp = t ]
                      ELSE store[i] ],
                  drafts, t, rs)

\* a variant of checkConverterAlerts under the limit of generateRandomAlert:
\* nothing is added to a store of five alerts or more
checkConverterAlertsCapped(store, converterData, t, rs) ==
    IF Len(store) < 5
    THEN addAlerts(store, converterDrafts(converterData), t, rs)
    ELSE store

\* checkConverterAlerts, lines 330-378: the store it leaves
checkConverterAlerts(store, converterData, t, rs) ==
    addAlerts(store, converterDrafts(converterData), t, rs)

\* Array.prototype.filter with the predicate alert.id !== alertId
RECURSIVE filterOut(_, _)
filterOut(store, alertId) ==
    IF store = << >> THEN << >>
    ELSE IF Head(store).id # alertId
         THEN <<Head(store)>> \o filterOut(Tail(store), alertId)
         ELSE filterOut(Tail(store), alertId)

\* a variant of dismissAlert that removes by position, as
\* splice(findIndex(...), 1) does: position -1 of an absent id is the last
dismissAlertBySplice(store, alertId) ==
    LET found == { i \in 1 .. Len(store) : store[i].id = alertId }
        index == IF found = {} THEN Len(store)
                 ELSE CHOOSE i \in found : \A j \in found : i <= j
    IN  SubSeq(store, 1, index - 1) \o SubSeq(store, index + 1, Len(store))

\* dismissAlert, lines 133-137: the store it leaves
dismissAlert(store, alertId) == filterOut(store, alertId)

\* the catalog of generateRandomAlert, part_000 lines 153-190
alertTypes == <<
    [ type |-> "warning", title |-> "DC-DC Converter Temperature",
      description |-> [text |-> "Boost converter operating temperature slightly elevated.",
                       value |-> NoValue], severity |-> "medium" ],
    [ type |-> "info", title |-> "Optimal Load Condition",
      description |-> [text |-> "DC-DC converter operating at peak efficiency range.",
                       value |-> NoValue], severity |-> "low" ],
    [ type |-> "error", title |-> "Output Voltage Ripple",
      description |-> [text |-> "Output voltage ripple exceeding 2%.",
                       value |-> NoValue], severity |-> "high" ],
    [ type |-> "warning", title |-> "Duty Cycle Limit",
      description |-> [text |-> "Operating near maximum duty cycle.",
                       value |-> NoValue], severity |-> "medium" ],
    [ type |-> "info", title |-> "Switching Frequency Stable",
      description |-> [text |-> "PWM switching frequency maintaining optimal performance.",
                       value |-> NoValue], severity |-> "low" ],
    [ type |-> "error", title |-> "Input Current Surge",
      description |-> [text |-> "Input current spike detected.",
                       value |-> NoValue], severity |-> "high" ] >>

\* a variant of injectorFires that admits a store of 5 alerts
injectorFiresAtFive(store, r) == Len(store) <= 5 /\ RLt(r, R(8, 100))

\* the guard of line 193: systemAlerts.length < 5 && Math.random() < 0.08
injectorFires(store, r) == Len(store) < 5 /\ RLt(r, R(8, 100))

\* generateRandomAlert, part_000 lines 152-205: the store it leaves.  rs
\* holds the values of Math.random() at lines 193, 194 and 196; the second
\* and third are drawn only when the guard holds
generateRandomAlert(store, t, rs) ==
    IF injectorFires(store, rs[1])
    THEN LET randomAlert == alertTypes[Floor(RMul(rs[2], RInt(Len(alertTypes)))) + 1]
         IN  unshift(store, newAlert(randomAlert, t, rs[3]))
    ELSE store


----------------------------------------------------------------------------
(* The chart buffers *)

\* toLocaleTimeString('en-US', {hour12: false, hour: '2-digit',
\* minute: '2-digit'}): the label HH:MM, held as the number HHMM
timeLabel(t) == getHours(t) * 100 + ((t \div 60000) % 60)

\* a variant of shift that takes the last element off, as pop does
shiftNewest(a) == SubSeq(a, 1, Len(a) - 1)

\* Array.prototype.shift: the array without its first element
shift(a) == Tail(a)

\* a variant of updateChartData that compares the length before the push
updateChartDataLate(chart, data) ==
    LET kept == IF Len(chart.labels) > CONFIG.MAX_DATA_POINTS
                THEN [ labels      |-> shift(chart.labels),
                       generation  |-> shift(chart.generation),
                       consumption |-> shift(chart.consumption) ]
                ELSE chart
    IN  [ labels      |-> Append(kept.labels, timeLabel(data.timestamp)),
          generation  |-> Append(kept.generation, data.generation),
          consumption |-> Append(kept.consumption, data.consumption) ]

\* updateChartData, part_000 lines 677-700 (script.js 353-376, the same
\* code): the buffers it leaves
updateChartData(chart, data) ==
    LET pushed == [ labels      |-> Append(chart.labels, timeLabel(data.timestamp)),
                    generation  |-> Append(chart.generation, data.generation),
                    consumption |-> Append(chart.consumption, data.consumption) ]
    IN  IF Len(pushed.labels) > CONFIG.MAX_DATA_POINTS
        THEN [ labels      |-> shift(pushed.labels),
               generation  |-> shift(pushed.generation),
               consumption |-> shift(pushed.consumption) ]
        ELSE pushed

----------------------------------------------------------------------------
(* External ingest: a payload field is [kind, val] with kind "undefined",  *)
(* "null" or "number"                                                      *)

Undefined == [kind |-> "undefined", val |-> RInt(0)]
Null      == [kind |-> "null", val |-> RInt(0)]
Num(x)    == [kind |-> "number", val |-> x]

\* field || fallback : undefined, null and 0 are falsy
orElse(field, fallback) ==
    IF field.kind = "number" /\ field.val.n # 0 THEN field.val ELSE fallback

\* a converter object of a payload: kind "undefined", "null" or "object",
\* and its fields
NoConverter(kind) ==
    [ kind |-> kind,
      val  |-> [ outputVoltage |-> Undefined, efficiency |-> Undefined,
                 dutyCycle |-> Undefined ] ]

ConverterObject(outputVoltage, efficiency, dutyCycle) ==
    [ kind |-> "object",
      val  |-> [ outputVoltage |-> outputVoltage, efficiency |-> efficiency,
                 dutyCycle |-> dutyCycle ] ]

\* Number(value).toFixed(1) as written to a metric card: Number(null) is 0
toFixed1(field) == IF field.kind = "number" THEN Num(Round1(field.val)) ELSE Num(RInt(0))

\* chartDataPoint with the fallback of its efficiency field (95) for generation
chartDataPointWithDefaults(data, t) ==
    [ generation  |-> orElse(data.generation, RInt(95)),
      consumption |-> orElse(data.consumption, RInt(0)),
      timestamp   |-> orElse(data.timestamp, RInt(t)).n ]

\* the object chartDataPoint of part_000 lines 299-305 (script.js 691-697)
chartDataPoint(data, t) ==
    [ generation  |-> orElse(data.generation, RInt(0)),
      consumption |-> orElse(data.consumption, RInt(0)),
      timestamp   |-> orElse(data.timestamp, RInt(t)).n ]

\* element.textContent = value for #storage-value (updateMetricCard), read
\* back by parseInt(_, 10): null gives the empty text, a number its digits
storageTextOf(field) ==
    IF field.kind = "number"
    THEN [num |-> TRUE, val |-> IF field.val.n >= 0 THEN Floor(field.val)
                                ELSE -Floor(RNeg(field.val))]
    ELSE [num |-> FALSE, val |-> 0]

----------------------------------------------------------------------------
(* State *)

NoReading == << >>

\* op: the step; alertId: the argument of dismissAlert; converter, drafts:
\* the reading given to checkConverterAlerts and its local array alerts;
\* sizeAtInjector: systemAlerts.length when generateRandomAlert starts;
\* draw: the value of Math.random() at line 193; fired: whether
\* generateRandomAlert added an alert; priorBattery: currentBattery of line
\* 411; payload: the argument of updateDashboardWithRealData; completed:
\* whether the handler returned (FALSE: it threw)
NoStep == [ op |-> "none", alertId |-> 0, drafts |-> << >>, converter |-> << >>,
            sizeAtInjector |-> 0, draw |-> RInt(1), fired |-> FALSE,
            priorBattery |-> 0, payload |-> << >>, completed |-> TRUE ]

\* the sinks: the metric cards, the gauge objects made by initializeGauges,
\* the chart canvas and the alert list
AllElements ==
    { "generation-value", "consumption-value", "storage-value",
      "efficiency-value", "voltageGauge", "efficiencyGauge", "energyChart",
      "alerts-list" }

\* nothing written yet: the texts of the page
InitialDisplay ==
    [ generation |-> Undefined, consumption |-> Undefined,
      efficiency |-> Undefined, voltage |-> Undefined,
      converterEfficiency |-> Undefined ]

\* a write to a sink that may be missing
write(old, element, value) == IF element \in dom THEN value ELSE old

\* Date.now() when the script is evaluated: 12:00 of day 2
LoadTimes == { 129600000 }

\* what #storage-value shows in the page before the first update
InitialTexts == { [num |-> FALSE, val |-> 0], [num |-> TRUE, val |-> 75] }

Init ==
    /\ now \in LoadTimes
    /\ systemAlerts = seededAlerts(now)
    /\ chartData = [labels |-> << >>, generation |-> << >>, consumption |-> << >>]
    /\ storageText \in InitialTexts
    /\ reading = NoReading
    /\ phase = "loaded"
    /\ ticks = 0
    /\ ingests = 0
    /\ calls = 0
    /\ display = InitialDisplay
    /\ dom = AllElements
    /\ script = "part_000"
    /\ last = NoStep

\* updateDashboard of part_000, lines 471-516, at time t, after line 472
\* has generated data: publish to the metric cards, the gauges and the
\* chart, check the converter alerts.  rs are the draws of the alert ids.
\* The value is the state the call leaves
updateDashboard(data, t, rs) ==
        [ reading      |-> data,
          storageText  |-> write(storageText, "storage-value",
                                 [num |-> TRUE, val |-> data.batteryLevel]),
          display      |->
              [ generation  |-> write(display.generation, "generation-value",
                                      toFixed1(Num(data.generation))),
                consumption |-> write(display.consumption, "consumption-value",
                                      toFixed1(Num(data.consumption))),
                efficiency  |-> write(display.efficiency, "efficiency-value",
                                      Num(RInt(data.efficiency))),
                voltage     |-> write(display.voltage, "voltageGauge",
                                      Num(data.converter.outputVoltage)),
                converterEfficiency |->
                    write(display.converterEfficiency, "efficiencyGauge",
                          Num(data.converter.efficiency)) ],
          chartData    |-> updateChartData(chartData, data),
          systemAlerts |-> checkConverterAlerts(systemAlerts, data.converter, t, rs) ]

\* the draws of one evaluation, taken from I: one per draft
idDraws(converterData, I) == [ 1 .. Len(converterDrafts(converterData)) -> I ]

\* the draws of generateRandomAlert, taken from I: line 193, and lines 194
\* and 196 when the guard holds
injectorDraws(store, I) ==
    { <<r>> : r \in { x \in I : ~injectorFires(store, x) } }
    \cup { <<r[1], r[2], r[3]>> :
             r \in { x \in [1 .. 3 -> I] : injectorFires(store, x[1]) } }

\* a variant of the DOMContentLoaded handler without the initial
\* updateDashboard
LoadWithoutUpdate(D, I) ==
    /\ script = "part_000"
    /\ phase = "loaded"
    /\ phase' = "running"
    /\ last' = [ NoStep EXCEPT !.op = "load" ]
    /\ UNCHANGED <<systemAlerts, chartData, now, storageText, reading, ticks,
                   ingests, calls, display, dom, script>>

\* the DOMContentLoaded handler, lines 898-917: the initial updateDashboard
\* (renderAlerts and the timers change none of the variables)
LoadWith(D, I) ==
    /\ script = "part_000"
    /\ phase = "loaded"
    /\ \E rnd \in D :
         \E data \in { generateSensorData(now, rnd, storageText) } :
            \E rs \in idDraws(data.converter, I) :
               \E after \in { updateDashboard(data, now, rs) } :
                  /\ reading' = <<after.reading>>
                  /\ storageText' = after.storageText
                  /\ display' = after.display
                  /\ chartData' = after.chartData
                  /\ systemAlerts' = after.systemAlerts
                  /\ last' = [ NoStep EXCEPT !.op = "load",
                                 !.priorBattery = currentBatteryOf(storageText),
                                 !.converter = <<data.converter>>,
                                 !.drafts = converterDrafts(data.converter) ]
    /\ phase' = "running"
    /\ UNCHANGED <<now, ticks, ingests, calls, dom, script>>

\* the interval callback with its two calls exchanged:
\* generateRandomAlert(); updateDashboard();
TickWithInjectorFirst(D, I, maxTicks) ==
    /\ script = "part_000"
    /\ phase = "running"
    /\ ticks < maxTicks
    /\ now' = now + CONFIG.UPDATE_INTERVAL
    /\ ticks' = ticks + 1
    /\ \E rnd \in D :
         \E data \in { generateSensorData(now', rnd, storageText) } :
            \E rs \in idDraws(data.converter, I) :
               \E after \in { updateDashboard(data, now', rs) } :
                  /\ reading' = <<after.reading>>
                  /\ storageText' = after.storageText
                  /\ display' = after.display
                  /\ chartData' = after.chartData
                  /\ \E draws \in injectorDraws(systemAlerts, I) :
                       /\ systemAlerts' =
                            checkConverterAlerts(
                               generateRandomAlert(systemAlerts, now', draws),
                               data.converter, now', rs)
                       /\ last' = [ NoStep EXCEPT !.op = "tick",
                                      !.priorBattery = currentBatteryOf(storageText),
                                      !.converter = <<data.converter>>,
                                      !.drafts = converterDrafts(data.converter),
                                      !.sizeAtInjector = Len(systemAlerts),
                                      !.draw = draws[1],
                                      !.fired = (Len(systemAlerts') >
                                                   Len(after.systemAlerts)) ]
    /\ UNCHANGED <<phase, ingests, calls, dom, script>>

\* the interval callback of startDataUpdates, lines 223-226:
\* updateDashboard(); generateRandomAlert();
TickWith(D, I, maxTicks) ==
    /\ script = "part_000"
    /\ phase = "running"
    /\ ticks < maxTicks
    /\ now' = now + CONFIG.UPDATE_INTERVAL
    /\ ticks' = ticks + 1
    /\ \E rnd \in D :
         \E data \in { generateSensorData(now', rnd, storageText) } :
            \E rs \in idDraws(data.converter, I) :
               \E after \in { updateDashboard(data, now', rs) } :
                  /\ reading' = <<after.reading>>
                  /\ storageText' = after.storageText
                  /\ display' = after.display
                  /\ chartData' = after.chartData
                  /\ \E draws \in injectorDraws(after.systemAlerts, I) :
                       /\ systemAlerts' =
                            generateRandomAlert(after.systemAlerts, now', draws)
                       /\ last' = [ NoStep EXCEPT !.op = "tick",
                                      !.priorBattery = currentBatteryOf(storageText),
                                      !.converter = <<data.converter>>,
                                      !.drafts = converterDrafts(data.converter),
                                      !.sizeAtInjector = Len(after.systemAlerts),
                                      !.draw = draws[1],
                                      !.fired = (Len(systemAlerts') >
                                                   Len(after.systemAlerts)) ]
    /\ UNCHANGED <<phase, ingests, calls, dom, script>>

\* a click on an alert of the list, or a call of the exported dismissAlert
\* with an id no alert carries (0)
DismissWith(maxCalls) ==
    /\ phase = "running"
    /\ calls < maxCalls
    /\ calls' = calls + 1
    /\ \E alertId \in { systemAlerts[i].id : i \in 1 .. Len(systemAlerts) } \cup {0} :
         /\ systemAlerts' = dismissAlert(systemAlerts, alertId)
         /\ last' = [ NoStep EXCEPT !.op = "dismiss", !.alertId = alertId ]
    /\ UNCHANGED <<chartData, now, storageText, reading, phase, ticks, ingests,
                   display, dom, script>>

\* clearAlerts, lines 142-146
ClearWith(maxCalls) ==
    /\ phase = "running"
    /\ calls < maxCalls
    /\ calls' = calls + 1
    /\ systemAlerts' = << >>
    /\ last' = [ NoStep EXCEPT !.op = "clear" ]
    /\ UNCHANGED <<chartData, now, storageText, reading, phase, ticks, ingests,
                   display, dom, script>>

\* a call of the exported checkConverterAlerts(converterData), in the
\* millisecond of the last step
CheckWith(inputs, I, maxCalls) ==
    /\ phase = "running"
    /\ calls < maxCalls
    /\ calls' = calls + 1
    /\ \E converterData \in inputs :
         \E rs \in idDraws(converterData, I) :
            /\ systemAlerts' = checkConverterAlerts(systemAlerts, converterData, now, rs)
            /\ last' = [ NoStep EXCEPT !.op = "check",
                           !.converter = <<converterData>>,
                           !.drafts = converterDrafts(converterData) ]
    /\ UNCHANGED <<chartData, now, storageText, reading, phase, ticks, ingests,
                   display, dom, script>>

\* updateDashboardWithRealData(data) of part_000, lines 255-311: the metric
\* cards and gauges of the fields that are not undefined, then one chart
\* point.  (The converter metrics of updateConverterMetrics are written by a
\* timeout 150 ms later and the status badge holds no data: not held here)
IngestWith(payloads, maxIngests) ==
    /\ script = "part_000"
    /\ phase = "running"
    /\ ingests < maxIngests
    /\ ingests' = ingests + 1
    /\ \E data \in payloads :
         /\ storageText' = IF data.batteryLevel.kind # "undefined"
                           THEN write(storageText, "storage-value",
                                      storageTextOf(data.batteryLevel))
                           ELSE storageText
         /\ display' =
              [ generation  |-> IF data.generation.kind # "undefined"
                                THEN write(display.generation, "generation-value",
                                           toFixed1(data.generation))
                                ELSE display.generation,
                consumption |-> IF data.consumption.kind # "undefined"
                                THEN write(display.consumption, "consumption-value",
                                           toFixed1(data.consumption))
                                ELSE display.consumption,
                efficiency  |-> IF data.efficiency.kind # "undefined"
                                THEN write(display.efficiency, "efficiency-value",
                                           data.efficiency)
                                ELSE display.efficiency,
                voltage     |-> IF data.converter.kind = "object"
                                   /\ data.converter.val.outputVoltage.kind # "undefined"
                                THEN write(display.voltage, "voltageGauge",
                                           data.converter.val.outputVoltage)
                                ELSE display.voltage,
                converterEfficiency |->
                                IF data.converter.kind = "object"
                                   /\ data.converter.val.efficiency.kind # "undefined"
                                THEN write(display.converterEfficiency, "efficiencyGauge",
                                           data.converter.val.efficiency)
                                ELSE display.converterEfficiency ]
         /\ chartData' = updateChartData(chartData, chartDataPoint(data, now))
         /\ last' = [ NoStep EXCEPT !.op = "ingest", !.payload = <<data>> ]
    /\ UNCHANGED <<systemAlerts, now, reading, phase, ticks, calls, dom, script>>

----------------------------------------------------------------------------
(* The baseline script, src/script.js: no converter, no checks for missing *)
(* sinks in generateSensorData, updateDashboard and                        *)
(* updateDashboardWithRealData                                             *)

\* the alerts script.js holds when it is loaded, lines 21-46
baselineSeededAlerts(t) == <<
    [ id |-> 1, type |-> "warning", title |-> "Battery Efficiency Low",
      description |-> [text |-> "Battery storage efficiency has dropped to 89%. Consider maintenance check.",
                       value |-> NoValue],
      timestamp |-> t - 3600000, severity |-> "medium" ],
    [ id |-> 2, type |-> "error", title |-> "Wind Turbine Anomaly",
      description |-> [text |-> "Wind turbine #2 showing irregular power output patterns.",
                       value |-> NoValue],
      timestamp |-> t - 7200000, severity |-> "high" ],
    [ id |-> 3, type |-> "info", title |-> "Solar Panel Cleaning Due",
      description |-> [text |-> "Scheduled maintenance for solar panel cleaning in 2 days.",
                       value |-> NoValue],
      timestamp |-> t - 86400000, severity |-> "low" ] >>

\* the catalog of generateRandomAlert, script.js lines 476-501
baselineAlertTypes == <<
    [ type |-> "warning", title |-> "High Energy Demand",
      description |-> [text |-> "Energy consumption is above normal levels for this time of day.",
                       value |-> NoValue], severity |-> "medium" ],
    [ type |-> "info", title |-> "Weather Update",
      description |-> [text |-> "Favorable wind conditions expected for next 6 hours.",
                       value |-> NoValue], severity |-> "low" ],
    [ type |-> "error", title |-> "Communication Error",
      description |-> [text |-> "Lost connection to remote sensor node #3.",
                       value |-> NoValue], severity |-> "high" ],
    [ type |-> "warning", title |-> "Battery Temperature",
      description |-> [text |-> "Battery temperature slightly elevated. Monitoring closely.",
                       value |-> NoValue], severity |-> "medium" ] >>

\* a variant of baselineInjectorFires that lets a store of five alerts through
baselineInjectorFiresAtFive(store, r) == Len(store) <= 5 /\ RLt(r, R(1, 10))

\* the guard of script.js line 504
baselineInjectorFires(store, r) == Len(store) < 5 /\ RLt(r, R(1, 10))

\* generateRandomAlert of script.js, lines 475-516; rs holds the values of
\* Math.random() at lines 504 and 505; the id is Date.now()
baselineGenerateRandomAlert(store, t, rs) ==
    IF baselineInjectorFires(store, rs[1])
    THEN LET randomAlert ==
                 baselineAlertTypes[Floor(RMul(rs[2], RInt(Len(baselineAlertTypes)))) + 1]
         IN  unshift(store, [ id |-> t, type |-> randomAlert.type,
                              title |-> randomAlert.title,
                              description |-> randomAlert.description,
                              severity |-> randomAlert.severity,
                              timestamp |-> t ])
    ELSE store

baselineInjectorDraws(store, I) ==
    { <<r>> : r \in { x \in I : ~baselineInjectorFires(store, x) } }
    \cup { <<r[1], r[2]>> :
             r \in { x \in [1 .. 2 -> I] : baselineInjectorFires(store, x[1]) } }

\* generateSensorData of script.js, lines 212-255 (the element
\* #storage-value exists); rnd holds the draws of lines 228, 237 and 253
baselineGenerateSensorData(t, rnd, text) ==
    LET hour        == getHours(t)
        generation  == generationOf(hour, rnd[1])
        consumption == consumptionOf(hour, rnd[2])
    IN  [ generation   |-> RMax(RInt(0), generation),
          consumption  |-> RMax(RInt(0), consumption),
          batteryLevel |-> batteryLevelOf(text, generation, consumption),
          timestamp    |-> t,
          efficiency   |-> Round(RAdd(RInt(92), RMul(rnd[3], RInt(6)))) ]

\* updateDashboard of script.js, lines 260-281: the state it leaves; data
\* is what generateSensorData returns when it returns.  Line 240 reads
\* .textContent of #storage-value and line 271 writes .textContent of
\* #efficiency-value without a check: a missing element is a TypeError
\* there, and the statements after it do not run
baselineUpdateDashboard(data) ==
    IF "storage-value" \notin dom
    THEN [ completed |-> FALSE, reading |-> reading, storageText |-> storageText,
           display |-> display, chartData |-> chartData ]
    ELSE [ completed   |-> "efficiency-value" \in dom,
           reading     |-> <<data>>,
           storageText |-> [num |-> TRUE, val |-> data.batteryLevel],
           display     |->
               [ display EXCEPT
                   !.generation  = write(display.generation, "generation-value",
                                         toFixed1(Num(data.generation))),
                   !.consumption = write(display.consumption, "consumption-value",
                                         toFixed1(Num(data.consumption))),
                   !.efficiency  = write(display.efficiency, "efficiency-value",
                                         Num(RInt(data.efficiency))) ],
           chartData   |-> IF "efficiency-value" \in dom
                           THEN updateChartData(chartData, data) ELSE chartData ]

\* the DOMContentLoaded handler of script.js, lines 60-77: initializeChart
\* (line 84 calls getContext on the canvas without a check), updateDashboard,
\* renderAlerts, startDataUpdates.  A TypeError ends the handler before the
\* timer is started
BaselineLoadWith(D) ==
    /\ script = "script.js"
    /\ phase = "loaded"
    /\ \E rnd \in D :
         \E data \in { baselineGenerateSensorData(now, rnd, storageText) } :
         \E after \in { baselineUpdateDashboard(data) } :
            IF "energyChart" \notin dom
            THEN /\ phase' = "failed"
                 /\ last' = [ NoStep EXCEPT !.op = "load", !.completed = FALSE ]
                 /\ UNCHANGED <<reading, storageText, display, chartData>>
            ELSE /\ phase' = IF after.completed THEN "running" ELSE "failed"
                 /\ reading' = after.reading
                 /\ storageText' = after.storageText
                 /\ display' = after.display
                 /\ chartData' = after.chartData
                 /\ last' = [ NoStep EXCEPT !.op = "load",
                                !.priorBattery = currentBatteryOf(storageText),
                                !.completed = after.completed ]
    /\ UNCHANGED <<systemAlerts, now, ticks, ingests, calls, dom, script>>

\* the interval callback of script.js, lines 534-537: updateDashboard();
\* generateRandomAlert(); a TypeError in the first ends the callback
BaselineTickWith(D, I, maxTicks) ==
    /\ script = "script.js"
    /\ phase = "running"
    /\ ticks < maxTicks
    /\ now' = now + CONFIG.UPDATE_INTERVAL
    /\ ticks' = ticks + 1
    /\ \E rnd \in D :
         \E data \in { baselineGenerateSensorData(now', rnd, storageText) } :
         \E after \in { baselineUpdateDashboard(data) } :
            /\ reading' = after.reading
            /\ storageText' = after.storageText
            /\ display' = after.display
            /\ chartData' = after.chartData
            /\ IF after.completed
               THEN \E draws \in baselineInjectorDraws(systemAlerts, I) :
                      /\ systemAlerts' =
                           baselineGenerateRandomAlert(systemAlerts, now', draws)
                      /\ last' = [ NoStep EXCEPT !.op = "tick",
                                     !.priorBattery = currentBatteryOf(storageText),
                                     !.sizeAtInjector = Len(systemAlerts),
                                     !.draw = draws[1],
                                     !.fired = (Len(systemAlerts') > Len(systemAlerts)) ]
               ELSE /\ systemAlerts' = systemAlerts
                    /\ last' = [ NoStep EXCEPT !.op = "tick", !.completed = FALSE ]
    /\ UNCHANGED <<phase, ingests, calls, dom, script>>

\* the statement of updateDashboardWithRealData of script.js that throws a
\* TypeError, 0 if none does: data.generation.toFixed (line 674, 1) and
\* data.consumption.toFixed (line 678, 2) on null, the write to a missing
\* #efficiency-value (line 687, 4)
baselineIngestThrowsAt(data) ==
    IF data.generation.kind = "null" THEN 1
    ELSE IF data.consumption.kind = "null" THEN 2
    ELSE IF data.efficiency.kind # "undefined" /\ "efficiency-value" \notin dom THEN 4
    ELSE 0

\* updateDashboardWithRealData(data) of script.js, lines 672-700: the state
\* it leaves; the statements before a TypeError have run
baselineIngest(data, t) ==
    [ completed   |-> baselineIngestThrowsAt(data) = 0,
      storageText |-> IF data.batteryLevel.kind # "undefined"
                         /\ baselineIngestThrowsAt(data) \in {0, 4}
                      THEN write(storageText, "storage-value",
                                 storageTextOf(data.batteryLevel))
                      ELSE storageText,
      display     |->
          [ display EXCEPT
              !.generation  = IF data.generation.kind = "number"
                              THEN write(display.generation, "generation-value",
                                         toFixed1(data.generation))
                              ELSE display.generation,
              !.consumption = IF data.consumption.kind = "number"
                                 /\ baselineIngestThrowsAt(data) # 1
                              THEN write(display.consumption, "consumption-value",
                                         toFixed1(data.consumption))
                              ELSE display.consumption,
              !.efficiency  = IF data.efficiency.kind # "undefined"
                                 /\ baselineIngestThrowsAt(data) = 0
                              THEN data.efficiency
                              ELSE display.efficiency ],
      chartData   |-> IF baselineIngestThrowsAt(data) = 0
                      THEN updateChartData(chartData, chartDataPoint(data, t))
                      ELSE chartData ]

BaselineIngestWith(payloads, maxIngests) ==
    /\ script = "script.js"
    /\ phase = "running"
    /\ ingests < maxIngests
    /\ ingests' = ingests + 1
    /\ \E data \in payloads :
         \E after \in { baselineIngest(data, now) } :
            /\ storageText' = after.storageText
            /\ display' = after.display
            /\ chartData' = after.chartData
            /\ last' = [ NoStep EXCEPT !.op = "ingest", !.payload = <<data>>,
                           !.completed = after.completed ]
    /\ UNCHANGED <<systemAlerts, now, reading, phase, ticks, calls, dom, script>>

----------------------------------------------------------------------------
(* Inputs of the specifications *)

\* the six draws of a reading explored by Spec and SpecChart: all 1/2
MidDraws == { [i \in 1 .. 6 |-> R(1, 2)] }

\* every combination of the six draws on the grid k / GenDen
AllDraws == [ 1 .. 6 -> { R(k, GenDen) : k \in 0 .. (GenDen - 1) } ]

\* a converter reading given to checkConverterAlerts
Converter(efficiency, outputVoltage, dutyCycle) ==
    [ inputVoltage |-> RInt(12), outputVoltage |-> outputVoltage,
      inputCurrent |-> RInt(2), outputCurrent |-> RInt(1),
      outputPower |-> outputVoltage, dutyCycle |-> dutyCycle,
      efficiency |-> efficiency ]

\* readings around each threshold: 84.9, 85, 95 % efficiency; 23.51, 23.52,
\* 23.53, 24, 24.47, 24.48, 24.49 V; 50, 90, 90.1 % duty cycle; and the
\* reading of spec section 8 that violates all three rules
BoundaryReadings ==
    { Converter(e, v, c) :
        e \in { R(849, 10), RInt(85), RInt(95) },
        v \in { R(2351, 100), R(2352, 100), R(2353, 100), RInt(24),
                R(2447, 100), R(2448, 100), R(2449, 100) },
        c \in { RInt(50), RInt(90), R(901, 10) } }
    \cup { Converter(RInt(80), RInt(30), RInt(95)) }

\* payloads of the ingest explored by SpecChart: nothing present, all
\* present, or only the battery level, as null
ChartPayloads ==
    { [ generation |-> Undefined, consumption |-> Undefined,
        batteryLevel |-> Undefined, efficiency |-> Undefined,
        converter |-> NoConverter("undefined"), timestamp |-> Undefined ],
      [ generation |-> Num(R(101, 10)), consumption |-> Num(R(72, 10)),
        batteryLevel |-> Num(RInt(30)), efficiency |-> Undefined,
        converter |-> NoConverter("undefined"),
        timestamp |-> Num(RInt(129000000)) ],
      [ generation |-> Undefined, consumption |-> Undefined,
        batteryLevel |-> Null, efficiency |-> Undefined,
        converter |-> NoConverter("undefined"), timestamp |-> Undefined ] }

\* Date.now() at the calls of generateSensorData explored by SpecGen: 03:00,
\* 06:00, 12:00 and 22:00 of day 2
GenTimes == { 86400000 + h * 3600000 : h \in {3, 6, 12, 22} }

\* the texts of #storage-value explored by SpecGen
GenTexts == { [num |-> FALSE, val |-> 0], [num |-> TRUE, val |-> 75],
              [num |-> TRUE, val |-> 30], [num |-> TRUE, val |-> 120] }

----------------------------------------------------------------------------
(* Specifications *)

\* Spec: the converter-aware page, its timer and the user's calls

Load == LoadWith(MidDraws, RandomDraws)

Tick == TickWith(MidDraws, RandomDraws, MaxTicks)

DismissAlert == DismissWith(MaxCalls)

ClearAlerts == ClearWith(MaxCalls)

Next == Load \/ Tick \/ DismissAlert \/ ClearAlerts

Spec == Init /\ [][Next]_vars

\* SpecChart: enough timer callbacks to fill the chart, and ingests

ChartLoad == LoadWith(MidDraws, { R(1, 2) })

ChartTick == TickWith(MidDraws, { R(1, 2) }, MaxChartTicks)

ChartIngest == IngestWith(ChartPayloads, MaxIngests)

NextChart == ChartLoad \/ ChartTick \/ ChartIngest

SpecChart == Init /\ [][NextChart]_vars

\* SpecEval: direct calls of checkConverterAlerts around its thresholds

EvalLoad == LoadWith(MidDraws, { R(1, 2) })

EvalCheck == CheckWith(BoundaryReadings, RandomDraws, MaxEvalCalls)

NextEval == EvalLoad \/ EvalCheck

SpecEval == Init /\ [][NextEval]_vars

\* SpecGen: generateSensorData alone, over every combination of its draws

InitGen ==
    /\ now \in GenTimes
    /\ storageText \in GenTexts
    /\ systemAlerts = seededAlerts(now)
    /\ chartData = [labels |-> << >>, generation |-> << >>, consumption |-> << >>]
    /\ reading = NoReading
    /\ phase = "loaded"
    /\ ticks = 0
    /\ ingests = 0
    /\ calls = 0
    /\ display = InitialDisplay
    /\ dom = AllElements
    /\ script = "part_000"
    /\ last = NoStep

Generate ==
    /\ reading = NoReading
    /\ \E rnd \in AllDraws :
         reading' = << generateSensorData(now, rnd, storageText) >>
    /\ last' = [ NoStep EXCEPT !.op = "generate" ]
    /\ UNCHANGED <<systemAlerts, chartData, now, storageText, phase, ticks,
                   ingests, calls, display, dom, script>>

NextGen == Generate

SpecGen == InitGen /\ [][NextGen]_vars

\* SpecBattery: the battery level over ticks and ingests that display a
\* battery level, at 12:00 (generation above consumption) and at 22:00
\* (consumption above generation)

\* the draws with the least and the greatest energy balance of the grid
BatteryDraws ==
    { [i \in 1 .. 6 |-> IF i = 1 THEN b[1] ELSE IF i = 2 THEN b[2] ELSE R(1, 2)] :
        b \in { <<RInt(0), R(GenDen - 1, GenDen)>>, <<R(GenDen - 1, GenDen), RInt(0)>> } }

\* payloads that carry only a battery level
BatteryPayloads ==
    { [ generation |-> Undefined, consumption |-> Undefined,
        batteryLevel |-> b, efficiency |-> Undefined,
        converter |-> NoConverter("undefined"), timestamp |-> Undefined ] :
        b \in { Num(RInt(-20)), Num(RInt(0)), Num(RInt(30)), Num(RInt(200)), Null } }

InitBattery ==
    /\ now \in { 129600000, 165600000 }
    /\ systemAlerts = seededAlerts(now)
    /\ chartData = [labels |-> << >>, generation |-> << >>, consumption |-> << >>]
    /\ storageText \in InitialTexts
    /\ reading = NoReading
    /\ phase = "loaded"
    /\ ticks = 0
    /\ ingests = 0
    /\ calls = 0
    /\ display = InitialDisplay
    /\ dom = AllElements
    /\ script = "part_000"
    /\ last = NoStep

BatteryLoad == LoadWith(BatteryDraws, { R(1, 2) })

BatteryTick == TickWith(BatteryDraws, { R(1, 2) }, MaxBatteryTicks)

BatteryIngest == IngestWith(BatteryPayloads, MaxBatteryIngests)

NextBattery == BatteryLoad \/ BatteryTick \/ BatteryIngest

SpecBattery == InitBattery /\ [][NextBattery]_vars

\* SpecIngest: updateDashboardWithRealData of both scripts, on payloads with
\* absent, null and numeric fields

\* a payload: the fields not named are undefined
Payload(generation, consumption, batteryLevel, efficiency, converter) ==
    [ generation |-> generation, consumption |-> consumption,
      batteryLevel |-> batteryLevel, efficiency |-> efficiency,
      converter |-> converter, timestamp |-> Undefined ]

IngestPayloads ==
    { Payload(Undefined, Undefined, Undefined, Undefined, NoConverter("undefined")),
      Payload(Num(R(101, 10)), Num(R(72, 10)), Num(RInt(60)), Num(RInt(95)),
              ConverterObject(Num(RInt(24)), Num(RInt(95)), Num(RInt(50)))),
      Payload(Undefined, Undefined, Undefined, Undefined,
              ConverterObject(Num(RInt(30)), Num(RInt(80)), Num(RInt(95)))),
      Payload(Null, Undefined, Undefined, Undefined, NoConverter("undefined")),
      Payload(Num(R(101, 10)), Null, Undefined, Undefined, NoConverter("undefined")),
      Payload(Undefined, Undefined, Null, Undefined, NoConverter("undefined")),
      Payload(Undefined, Undefined, Undefined, Null, NoConverter("undefined")),
      Payload(Undefined, Undefined, Undefined, Undefined, NoConverter("null")),
      Payload(Undefined, Num(R(72, 10)), Undefined, Undefined,
              ConverterObject(Null, Undefined, Undefined)),
      Payload(Null, Null, Null, Null, NoConverter("null")) }

\* the state after the script of the page is evaluated
InitPage(scripts, doms) ==
    /\ now \in LoadTimes
    /\ script \in scripts
    /\ dom \in doms
    /\ systemAlerts = IF script = "part_000" THEN seededAlerts(now)
                      ELSE baselineSeededAlerts(now)
    /\ chartData = [labels |-> << >>, generation |-> << >>, consumption |-> << >>]
    /\ storageText \in InitialTexts
    /\ reading = NoReading
    /\ phase = "loaded"
    /\ ticks = 0
    /\ ingests = 0
    /\ calls = 0
    /\ display = InitialDisplay
    /\ last = NoStep

InitIngest == InitPage({"part_000", "script.js"}, {AllElements})

IngestLoad == LoadWith(MidDraws, { R(1, 2) })

IngestTick == TickWith(MidDraws, { R(1, 2) }, MaxIngestTicks)

IngestCall == IngestWith(IngestPayloads, MaxIngestCalls)

IngestBaselineLoad == BaselineLoadWith(MidDraws)

IngestBaselineTick == BaselineTickWith(MidDraws, { R(1, 2) }, MaxIngestTicks)

IngestBaselineCall == BaselineIngestWith(IngestPayloads, MaxIngestCalls)

NextIngest ==
    \/ IngestLoad \/ IngestTick \/ IngestCall
    \/ IngestBaselineLoad \/ IngestBaselineTick \/ IngestBaselineCall

SpecIngest == InitIngest /\ [][NextIngest]_vars

\* SpecSinks: both scripts on pages that lack any of the sinks

\* the elements of the page: every subset of the sinks
SinkDoms == SUBSET AllElements

\* Math.random() of the injector: below and above both thresholds
SinkDraws == { R(1, 100), R(1, 2) }

InitSinks == InitPage({"part_000", "script.js"}, SinkDoms)

SinkLoad == LoadWith(MidDraws, { R(1, 2) })

SinkTick == TickWith(MidDraws, SinkDraws, MaxSinkTicks)

SinkBaselineLoad == BaselineLoadWith(MidDraws)

SinkBaselineTick == BaselineTickWith(MidDraws, SinkDraws, MaxSinkTicks)

NextSinks == SinkLoad \/ SinkTick \/ SinkBaselineLoad \/ SinkBaselineTick

SpecSinks == InitSinks /\ [][NextSinks]_vars

\* SpecStore: the alert store of both scripts under the interval callback,
\* dismissAlert and clearAlerts

InitStore == InitPage({"part_000", "script.js"}, {AllElements})

StoreLoad == LoadWith(MidDraws, RandomDraws)

StoreTick == TickWith(MidDraws, RandomDraws, MaxStoreTicks)

StoreBaselineLoad == BaselineLoadWith(MidDraws)

StoreBaselineTick == BaselineTickWith(MidDraws, RandomDraws, MaxStoreTicks)

StoreDismissAlert == DismissWith(MaxStoreCalls)

StoreClearAlerts == ClearWith(MaxStoreCalls)

NextStore ==
    \/ StoreLoad \/ StoreTick \/ StoreBaselineLoad \/ StoreBaselineTick
    \/ StoreDismissAlert \/ StoreClearAlerts

SpecStore == InitStore /\ [][NextStore]_vars

\* SpecGrowth: part_000 left to itself, nothing dismissed or cleared

\* the six draws of a reading: those of the output voltage (line 426) and
\* of the converter efficiency (line 447) at the low end and at 2/3, the
\* others at 1/2
GrowthDraws ==
    { [ i \in 1 .. 6 |-> IF i = 4 THEN v ELSE IF i = 5 THEN e ELSE R(1, 2) ] :
        v \in { RInt(0), R(2, 3) }, e \in { RInt(0), R(2, 3) } }

InitGrowth == InitPage({"part_000"}, {AllElements})

GrowthLoad == LoadWith(GrowthDraws, RandomDraws)

GrowthTick == TickWith(GrowthDraws, RandomDraws, MaxGrowthTicks)

NextGrowth == GrowthLoad \/ GrowthTick

SpecGrowth == InitGrowth /\ [][NextGrowth]_vars

----------------------------------------------------------------------------
(* Properties *)

\* the ids and the titles of the alerts of a store
idsOf(store) == { store[i].id : i \in 1 .. Len(store) }

countTitle(alerts, title) ==
    Cardinality({ i \in 1 .. Len(alerts) : alerts[i].title = title })

\* C1: after any interleaving of timer callbacks and ingests the three
\* sequences of the chart have the same length, and that length is at most
\* MAX_DATA_POINTS (20).
C1_ChartBounded ==
    /\ Len(chartData.labels) = Len(chartData.generation)
    /\ Len(chartData.generation) = Len(chartData.consumption)
    /\ Len(chartData.labels) <= CONFIG.MAX_DATA_POINTS

\* the chart is full after more than MAX_DATA_POINTS appends, an ingest
\* among them
C1_Witness ==
    /\ Len(chartData.labels) = CONFIG.MAX_DATA_POINTS
    /\ 1 + ticks + ingests > CONFIG.MAX_DATA_POINTS
    /\ ingests > 0

\* C2: generateRandomAlert adds nothing to a store of 5 or more alerts,
\* whatever Math.random() returns, and the store it has added to holds at
\* most 5 alerts.
C2_InjectorCapped ==
    /\ last.op = "tick" /\ last.fired =>
         /\ last.sizeAtInjector < 5
         /\ Len(systemAlerts) <= 5
    /\ Len(systemAlerts) >= 5 =>
         \A rs \in [1 .. 3 -> RandomDraws] :
            generateRandomAlert(systemAlerts, now, rs) = systemAlerts

\* the injector met a store of 5 alerts with a draw below 0.08 and added
\* nothing
C2_Witness ==
    /\ last.op = "tick"
    /\ last.sizeAtInjector >= 5
    /\ RLt(last.draw, R(8, 100))
    /\ ~last.fired

\* the injector has added an alert
C2_Fired == last.op = "tick" /\ last.fired

\* the titles of the drafts of an evaluation, in their order
titlesOf(alerts) == [ i \in 1 .. Len(alerts) |-> alerts[i].title ]

\* the titles the three rules name for a reading, compared as decimals
titlesByRule(converterData) ==
    (IF RLt(converterData.efficiency, RInt(85))
     THEN << "Critical Efficiency Drop" >> ELSE << >>)
    \o (IF RLt(R(48, 100), RAbs(RSub(converterData.outputVoltage, RInt(24))))
        THEN << "Output Voltage Out of Range" >> ELSE << >>)
    \o (IF RLt(RInt(90), converterData.dutyCycle)
        THEN << "Critical Duty Cycle" >> ELSE << >>)

\* C3: the drafts of checkConverterAlerts are, in this order, 'Critical
\* Efficiency Drop' iff efficiency < 85, 'Output Voltage Out of Range' iff
\* |outputVoltage - 24.0| > 0.48 and 'Critical Duty Cycle' iff dutyCycle >
\* 90; an efficiency of 85, a deviation of exactly 0.48 V and a duty cycle
\* of 90 raise nothing.
C3_DraftsByRule ==
    last.op = "check" =>
        /\ titlesOf(last.drafts) = titlesByRule(last.converter[1])
        /\ \A i \in 1 .. Len(last.drafts) :
              <<last.drafts[i].type, last.drafts[i].severity>> =
                 IF last.drafts[i].title = "Output Voltage Out of Range"
                 THEN <<"warning", "medium">> ELSE <<"error", "high">>

\* C4: an evaluation by checkConverterAlerts leaves systemAlerts as it was.
C4_EvaluatorPure ==
    [][ last'.op = "check" => systemAlerts' = systemAlerts ]_vars

\* C4, as the code has it: checkConverterAlerts puts one alert per draft at
\* the front of systemAlerts, the first draft deepest, each with the draft's
\* title, the time of the call as timestamp and an id from that time up to
\* 999 above it, and leaves the alerts the store held behind them.
C4_EvaluatorInserts ==
    [][ last'.op = "check" =>
          LET n == Len(last'.drafts)
          IN  /\ Len(systemAlerts') = Len(systemAlerts) + n
              /\ SubSeq(systemAlerts', n + 1, Len(systemAlerts')) = systemAlerts
              /\ \A i \in 1 .. n :
                   /\ systemAlerts'[n + 1 - i].title = last'.drafts[i].title
                   /\ systemAlerts'[n + 1 - i].timestamp = now'
                   /\ systemAlerts'[n + 1 - i].id \in now' .. (now' + 999) ]_vars

\* an evaluation with three drafts has put three alerts in front of the four
\* the store held
C4_Witness ==
    /\ last.op = "check"
    /\ Len(last.drafts) = 3
    /\ Len(systemAlerts) = 7

\* the titles of the three rules of checkConverterAlerts
thresholdTitles ==
    { "Critical Efficiency Drop", "Output Voltage Out of Range",
      "Critical Duty Cycle" }

\* C5: the store never holds two alerts with the title of the same rule of
\* checkConverterAlerts.
C5_Deduplicated ==
    \A title \in thresholdTitles : countTitle(systemAlerts, title) <= 1

\* C5, as the code has it: every evaluation of updateDashboard adds one
\* alert per draft, whatever the store holds: the alerts with the title of
\* a rule grow by the drafts with that title.
C5_OneAlertPerDraft ==
    [][ last'.op \in {"load", "tick"} =>
          \A title \in thresholdTitles :
             countTitle(systemAlerts', title) =
                countTitle(systemAlerts, title) + countTitle(last'.drafts, title) ]_vars

\* two ticks have left two alerts of the voltage rule
C5_Witness ==
    /\ last.op = "tick"
    /\ countTitle(last.drafts, "Output Voltage Out of Range") = 1
    /\ countTitle(systemAlerts, "Output Voltage Out of Range") >= 2

C7_RemovesAtMostOne ==
    [][ last'.op = "dismiss" => Len(systemAlerts') >= Len(systemAlerts) - 1 ]_vars

\* C8: dismissAlert with an id no alert carries leaves the store as it was,
\* and dismissing the id of a dismissal once more changes nothing.
C8_DismissAbsent ==
    [][ last'.op = "dismiss" =>
          /\ last'.alertId \notin idsOf(systemAlerts) => systemAlerts' = systemAlerts
          /\ dismissAlert(systemAlerts', last'.alertId) = systemAlerts' ]_vars

\* an id no alert carries has been dismissed on a store that holds alerts
C8_Witness ==
    /\ last.op = "dismiss"
    /\ last.alertId \notin idsOf(systemAlerts)
    /\ last.alertId = 0
    /\ Len(systemAlerts) > 0

\* an alert of the store has been dismissed
C8_Dismissed ==
    /\ last.op = "dismiss"
    /\ last.alertId # 0
    /\ Len(systemAlerts) > 0

\* x lies in the closed range of CONFIG
inRange(x, range) == RLe(range.min, x) /\ RLe(x, range.max)

\* C9: the duty cycle of every generated reading lies in DUTY_CYCLE_RANGE
\* [40, 65] and its converter efficiency in EFFICIENCY_RANGE [85, 96].
C9_DutyAndEfficiencyInRange ==
    reading # NoReading =>
        /\ inRange(reading[1].converter.dutyCycle, CONFIG.DUTY_CYCLE_RANGE)
        /\ inRange(reading[1].converter.efficiency, CONFIG.EFFICIENCY_RANGE)

\* C10: the input voltage of every generated reading lies in [10, 15], the
\* output voltage in [20, 28], the input current in [1, 4] and the output
\* current in [0.8, 2.5].
C10_VoltagesAndCurrentsInRange ==
    reading # NoReading =>
        /\ inRange(reading[1].converter.inputVoltage, CONFIG.INPUT_VOLTAGE_RANGE)
        /\ inRange(reading[1].converter.outputVoltage, CONFIG.OUTPUT_VOLTAGE_RANGE)
        /\ inRange(reading[1].converter.inputCurrent, CONFIG.INPUT_CURRENT_RANGE)
        /\ inRange(reading[1].converter.outputCurrent, CONFIG.OUTPUT_CURRENT_RANGE)

\* C11: the battery level of every generated reading is an integer from
\* BATTERY_RANGE.min to BATTERY_RANGE.max (45 to 95), whatever level was
\* read back from the page, also after an ingest displayed a level outside
\* that range.
C11_BatteryInRange ==
    reading # NoReading =>
        /\ reading[1].batteryLevel \in Int
        /\ RLe(CONFIG.BATTERY_RANGE.min, RInt(reading[1].batteryLevel))
        /\ RLe(RInt(reading[1].batteryLevel), CONFIG.BATTERY_RANGE.max)

\* a tick has read back the level 200 an ingest displayed and generated the
\* level 95
C11_Witness ==
    /\ last.op = "tick"
    /\ ingests > 0
    /\ last.priorBattery > 95
    /\ reading[1].batteryLevel = 95

\* a tick has read back a level below 45 and generated a level in the range
C11_WitnessBelow ==
    /\ last.op = "tick"
    /\ ingests > 0
    /\ last.priorBattery < 45
    /\ reading[1].batteryLevel >= 45

\* the distance of the published output power from the product of the
\* published output voltage and output current
powerGap(converter) ==
    RAbs(RSub(converter.outputPower,
              RMul(converter.outputVoltage, converter.outputCurrent)))

\* C12: the published output power of every generated reading is within
\* 0.05 of the product of the published output voltage and output current.
C12_PowerOfPublishedFields ==
    reading # NoReading => RLe(powerGap(reading[1].converter), R(5, 100))

\* C12, as the code has it: the output power is the product of the
\* unrounded voltage and current, rounded to one decimal, and the three
\* fields are rounded apart, so the published power is within
\* 0.05 * (1 + outputVoltage + outputCurrent) + 0.0025 of the product of
\* the published voltage and current.
C12_PowerOfUnroundedFields ==
    reading # NoReading =>
        LET c == reading[1].converter
        IN  RLe(powerGap(c),
                RAdd(RMul(R(5, 100),
                          RAdd(RInt(1), RAdd(c.outputVoltage, c.outputCurrent))),
                     R(25, 10000)))

\* a generated reading whose published power is more than 0.05 from the
\* product of its published voltage and current
C12_Witness ==
    /\ reading # NoReading
    /\ last.op = "generate"
    /\ RLt(R(5, 100), powerGap(reading[1].converter))

\* the converter object of a payload as checkConverterAlerts reads it
converterOf(object) ==
    Converter(object.efficiency.val, object.outputVoltage.val, object.dutyCycle.val)

\* the payload of the last ingest carries a converter object with numbers
ingestedConverter(step) ==
    /\ step.op = "ingest"
    /\ step.payload[1].converter.kind = "object"
    /\ \A f \in {"efficiency", "outputVoltage", "dutyCycle"} :
          step.payload[1].converter.val[f].kind = "number"

\* C13: an ingest of a payload whose converter values break a rule of
\* checkConverterAlerts adds the alert of that rule to the store, as
\* updateDashboard does for a generated reading with those values.
C13_IngestChecksConverter ==
    [][ script = "part_000" /\ ingestedConverter(last') =>
          LET drafts == converterDrafts(converterOf(last'.payload[1].converter.val))
          IN  /\ Len(systemAlerts') = Len(systemAlerts) + Len(drafts)
              /\ \A title \in thresholdTitles :
                    countTitle(systemAlerts', title) =
                       countTitle(systemAlerts, title) + countTitle(drafts, title) ]_vars

\* the metric cards and gauge values of the fields that the payload of the
\* step leaves undefined are as they were
absentFieldsKeptOnPage(step) ==
    LET data == step.payload[1]
    IN  /\ data.generation.kind = "undefined" => display'.generation = display.generation
        /\ data.consumption.kind = "undefined" => display'.consumption = display.consumption
        /\ data.batteryLevel.kind = "undefined" => storageText' = storageText
        /\ data.efficiency.kind = "undefined" => display'.efficiency = display.efficiency
        /\ data.converter.kind = "undefined" \/ data.converter.val.outputVoltage.kind = "undefined"
              => display'.voltage = display.voltage
        /\ data.converter.kind = "undefined" \/ data.converter.val.efficiency.kind = "undefined"
              => display'.converterEfficiency = display.converterEfficiency

\* C14 (as stated): an ingest skips the update of every field that is absent
\* from the payload and substitutes no default: the metric card, the gauge
\* value and the chart series of an absent generation or consumption are as
\* they were before the call.
C14_AbsentFieldSkipped ==
    [][ last'.op = "ingest" =>
          /\ absentFieldsKeptOnPage(last')
          /\ last'.payload[1].generation.kind = "undefined"
                => chartData'.generation = chartData.generation
          /\ last'.payload[1].consumption.kind = "undefined"
                => chartData'.consumption = chartData.consumption ]_vars

\* C14 (amended): an ingest skips the metric card and the gauge value of
\* every absent field, and every ingest that returns appends one chart
\* point, in which an absent generation or consumption is 0.
C14_AbsentFieldChartedAsZero ==
    [][ last'.op = "ingest" =>
          /\ absentFieldsKeptOnPage(last')
          /\ last'.completed =>
               /\ Len(chartData'.generation) =
                     IF Len(chartData.generation) < CONFIG.MAX_DATA_POINTS
                     THEN Len(chartData.generation) + 1 ELSE CONFIG.MAX_DATA_POINTS
               /\ Len(chartData'.consumption) = Len(chartData'.generation)
               /\ last'.payload[1].generation.kind = "undefined"
                     => chartData'.generation[Len(chartData'.generation)] = RInt(0)
               /\ last'.payload[1].consumption.kind = "undefined"
                     => chartData'.consumption[Len(chartData'.consumption)] = RInt(0) ]_vars

\* an ingest without generation has returned after the page showed a
\* generation, and the chart holds its point
C14_Witness ==
    /\ last.op = "ingest" /\ last.completed
    /\ last.payload[1].generation.kind = "undefined"
    /\ display.generation.kind = "number"
    /\ Len(chartData.generation) >= 2
    /\ chartData.generation[Len(chartData.generation)] = RInt(0)

\* the metric cards and gauge values of the fields that the payload of the
\* step gives as null are as they were
nullFieldsKeptOnPage(step) ==
    LET data == step.payload[1]
    IN  /\ data.generation.kind = "null" => display'.generation = display.generation
        /\ data.consumption.kind = "null" => display'.consumption = display.consumption
        /\ data.batteryLevel.kind = "null" => storageText' = storageText
        /\ data.efficiency.kind = "null" => display'.efficiency = display.efficiency
        /\ data.converter.kind = "null" \/ data.converter.val.outputVoltage.kind = "null"
              => display'.voltage = display.voltage
        /\ data.converter.kind = "null" \/ data.converter.val.efficiency.kind = "null"
              => display'.converterEfficiency = display.converterEfficiency

\* C15: updateDashboardWithRealData returns without throwing whichever
\* optional fields of the payload are undefined or null, and it skips the
\* update of a null field as it skips that of an absent one, in both scripts.
C15_NullToleratedAsAbsent ==
    [][ last'.op = "ingest" =>
          /\ last'.completed
          /\ nullFieldsKeptOnPage(last') ]_vars

\* C16: whichever sinks the page lacks, the update of the page load starts
\* the interval, and every interval callback runs to its end: the chart
\* point is appended, the converter alerts are stored and the injector is
\* consulted, in both scripts.
C16_AbsentSinkTolerated ==
    [][ /\ last'.op = "load" =>
             /\ phase' = "running"
             /\ Len(chartData'.labels) = Len(chartData.labels) + 1
        /\ last'.op = "tick" =>
             /\ last'.completed
             /\ Len(chartData'.labels) = Len(chartData.labels) + 1
             /\ last'.sizeAtInjector = Len(systemAlerts) + Len(last'.drafts) ]_vars

\* C17: in every interval callback the reading is generated, published to
\* the metric cards and the chart, its converter values are checked and the
\* alerts of the check stored, and only then generateRandomAlert runs: it
\* tests the length of the store that holds the alerts of the same callback
\* and puts its alert in front of them.
C17_InjectorAfterThresholds ==
    [][ last'.op = "tick" =>
          /\ last'.converter = <<reading'[1].converter>>
          /\ last'.drafts = converterDrafts(reading'[1].converter)
          /\ display'.generation = toFixed1(Num(reading'[1].generation))
          /\ chartData'.generation[Len(chartData'.generation)] = reading'[1].generation
          /\ last'.sizeAtInjector = Len(systemAlerts) + Len(last'.drafts)
          /\ last'.fired => last'.sizeAtInjector < 5
          /\ Len(systemAlerts') =
                last'.sizeAtInjector + (IF last'.fired THEN 1 ELSE 0)
          /\ LET front == IF last'.fired THEN 1 ELSE 0
             IN  /\ \A i \in 1 .. front :
                       systemAlerts'[i].title \notin thresholdTitles
                 /\ \A i \in 1 .. Len(last'.drafts) :
                       systemAlerts'[front + i].title \in thresholdTitles
                 /\ SubSeq(systemAlerts', front + Len(last'.drafts) + 1,
                           Len(systemAlerts')) = systemAlerts ]_vars

\* an interval callback has stored alerts of its reading and then an alert
\* of generateRandomAlert
C17_Witness ==
    /\ last.op = "tick"
    /\ last.fired
    /\ Len(last.drafts) > 0
    /\ systemAlerts[1].title \notin thresholdTitles
    /\ systemAlerts[2].title \in thresholdTitles

\* an interval callback in which generateRandomAlert found the store full
\* because of the alerts of the same reading
C17_WitnessFull ==
    /\ last.op = "tick"
    /\ ~last.fired
    /\ RLt(last.draw, R(8, 100))
    /\ last.sizeAtInjector >= 5
    /\ last.sizeAtInjector - Len(last.drafts) < 5

\* the alerts of a store that carry the title of a rule of
\* checkConverterAlerts
countThreshold(store) ==
    Cardinality({ i \in 1 .. Len(store) : store[i].title \in thresholdTitles })

\* C18: the limit of five alerts does not hold for the alerts of
\* checkConverterAlerts: every update of the dashboard stores one alert per
\* draft of its reading, however many alerts the store holds, and the store
\* grows beyond five.
C18_ThresholdAlertsUncapped ==
    [][ last'.op \in {"load", "tick"} =>
          countThreshold(systemAlerts') =
             countThreshold(systemAlerts) + Len(last'.drafts) ]_vars

\* an interval callback has stored the alerts of its reading in a store that
\* already held five alerts or more
C18_Witness ==
    /\ last.op = "tick"
    /\ Len(last.drafts) > 0
    /\ last.sizeAtInjector - Len(last.drafts) >= 5
    /\ Len(systemAlerts) > 5
    /\ countThreshold(systemAlerts) >= Len(last.drafts)

\* C19: every insertion, by generateRandomAlert or by checkConverterAlerts,
\* puts the new alert at index 0 and leaves the alerts of the store in their
\* order behind it: after a step the alerts it added are at the front, the
\* latest first (the alert of generateRandomAlert before those of the
\* reading, the last draft before the first), and behind them is the store
\* as it was.
C19_InsertsAtFront ==
    [][ Len(systemAlerts') > Len(systemAlerts) =>
          LET n == Len(systemAlerts') - Len(systemAlerts)
              front == IF last'.fired THEN 1 ELSE 0
          IN  /\ SubSeq(systemAlerts', n + 1, Len(systemAlerts')) = systemAlerts
              /\ n = front + Len(last'.drafts)
              /\ \A i \in 1 .. n : systemAlerts'[i].timestamp = now'
              /\ \A i \in 1 .. front :
                    systemAlerts'[i].title \notin thresholdTitles
              /\ \A j \in 1 .. Len(last'.drafts) :
                    systemAlerts'[n + 1 - j].title = last'.drafts[j].title ]_vars

\* generateRandomAlert of script.js has put its alert before the three
\* alerts the script starts with
C19_Witness ==
    /\ script = "script.js"
    /\ last.op = "tick" /\ last.fired
    /\ Len(systemAlerts) = 4
    /\ systemAlerts[1].id = now
    /\ \E t \in LoadTimes : SubSeq(systemAlerts, 2, 4) = baselineSeededAlerts(t)

\* an interval callback of part_000 has put the alerts of its reading and
\* then the alert of generateRandomAlert before an alert the store held
C19_WitnessBoth ==
    /\ script = "part_000"
    /\ last.op = "tick" /\ last.fired
    /\ Len(last.drafts) > 0
    /\ Len(systemAlerts) > 1 + Len(last.drafts)

\* C20: the alerts of the store are never edited.  A step other than
\* dismissAlert and clearAlerts leaves the whole store, alert for alert and
\* field for field, behind the alerts it adds; dismissAlert leaves every
\* alert of another id as it was and in its place, and takes out only alerts
\* of the id it is given.
C20_AlertsNeverEdited ==
    [][ /\ last'.op \notin {"dismiss", "clear"} =>
             /\ Len(systemAlerts') >= Len(systemAlerts)
             /\ SubSeq(systemAlerts', Len(systemAlerts') - Len(systemAlerts) + 1,
                       Len(systemAlerts')) = systemAlerts
        /\ last'.op = "dismiss" =>
             systemAlerts' =
                SelectSeq(systemAlerts, LAMBDA alert : alert.id # last'.alertId) ]_vars

\* dismissAlert has taken one alert out of a store that an interval callback
\* had added to, and the other alerts are in the store
C20_Witness ==
    /\ last.op = "dismiss"
    /\ last.alertId # 0
    /\ ticks >= 1
    /\ Len(systemAlerts) >= 3
    /\ last.alertId \notin idsOf(systemAlerts)

\* an interval callback has added alerts of titles the store already held
C20_WitnessRaisedAgain ==
    /\ last.op = "tick"
    /\ Len(last.drafts) > 0
    /\ \A j \in 1 .. Len(last.drafts) :
          countTitle(systemAlerts, last.drafts[j].title) >= 2

\* the point a step gives to updateChartData: the reading of the page load
\* or of the interval callback, dated with the time of the step, or the
\* chart point of an ingest
appendedPoint(step) ==
    IF step.op = "ingest"
    THEN LET point == chartDataPoint(step.payload[1], now')
         IN  [ label |-> timeLabel(point.timestamp), generation |-> point.generation,
               consumption |-> point.consumption ]
    ELSE [ label |-> timeLabel(now'), generation |-> reading'[1].generation,
           consumption |-> reading'[1].consumption ]

\* a sequence after a point has come in at its end, its oldest element
\* given up once it is full
fifo(old, value) ==
    IF Len(old) < CONFIG.MAX_DATA_POINTS THEN Append(old, value)
    ELSE Append(Tail(old), value)

\* C21: the chart gives up its points first in, first out: every append puts
\* the label, the generation and the consumption of one point at the end of
\* the three arrays and, when they held MAX_DATA_POINTS points, takes the
\* oldest entry, and nothing else, off each of them; so the chart holds the
\* last min(n, MAX_DATA_POINTS) points in the order they came, one index per
\* point.
C21_ChartFifo ==
    [][ last'.op \in {"load", "tick", "ingest"} =>
          /\ chartData'.labels = fifo(chartData.labels, appendedPoint(last').label)
          /\ chartData'.generation =
                fifo(chartData.generation, appendedPoint(last').generation)
          /\ chartData'.consumption =
                fifo(chartData.consumption, appendedPoint(last').consumption) ]_vars

\* the oldest points have been given up: the full chart ends with the point
\* of an ingest and begins with a point of another generation and another
\* minute
C21_Witness ==
    /\ Len(chartData.labels) = CONFIG.MAX_DATA_POINTS
    /\ 1 + ticks + ingests > CONFIG.MAX_DATA_POINTS + 1
    /\ last.op = "ingest"
    /\ chartData.generation[1] # chartData.generation[CONFIG.MAX_DATA_POINTS]
    /\ chartData.labels[1] # chartData.labels[CONFIG.MAX_DATA_POINTS]

\* C22: with the CONFIG of part_000 every generated reading has an output
\* voltage of 25.6 V or more, beyond 24 V by more than 0.48 V; so every
\* updateDashboard, at the page load and in every interval callback, stores
\* one 'Output Voltage Out of Range' alert, and a store nothing is dismissed
\* from grows by one alert per callback, whatever its size.
C22_VoltageAlertEveryTick ==
    [][ last'.op \in {"load", "tick"} =>
          /\ RLe(R(256, 10), reading'[1].converter.outputVoltage)
          /\ voltageOutOfRange(reading'[1].converter.outputVoltage)
          /\ countTitle(systemAlerts', "Output Voltage Out of Range") =
                countTitle(systemAlerts, "Output Voltage Out of Range") + 1
          /\ Len(systemAlerts') = Len(systemAlerts) + 1 ]_vars

\* the store has grown beyond five alerts, one per interval callback, on
\* readings at the lowest output voltage
C22_Witness ==
    /\ last.op = "tick"
    /\ ticks = MaxGrowthTicks
    /\ reading[1].converter.outputVoltage = R(256, 10)
    /\ Len(systemAlerts) = 4 + ticks
    /\ countTitle(systemAlerts, "Output Voltage Out of Range") = 1 + ticks

\* C23: in part_000, as long as nothing is dismissed or cleared,
\* generateRandomAlert never adds an alert: the three alerts the script
\* starts with, the alert of the updateDashboard of the page load and that
\* of the first interval callback make five before generateRandomAlert runs
\* for the first time, and the store only grows from there.
C23_InjectorNeverFires ==
    /\ ~last.fired
    /\ last.op = "tick" => last.sizeAtInjector = 4 + ticks
    /\ last.op = "tick" => last.sizeAtInjector >= 5
    /\ \A i \in 1 .. Len(systemAlerts) :
          \A k \in 1 .. Len(alertTypes) : systemAlerts[i].title # alertTypes[k].title

\* generateRandomAlert has run for the first time, with a draw below 0.08,
\* on a store of exactly five alerts
C23_Witness ==
    /\ last.op = "tick"
    /\ ticks = 1
    /\ RLt(last.draw, R(8, 100))
    /\ last.sizeAtInjector = 5
    /\ Len(systemAlerts) = 5

\* C24: with the CONFIG of part_000 no generated reading raises 'Critical
\* Efficiency Drop' or 'Critical Duty Cycle': the converter efficiency of a
\* reading is 85 or more and its duty cycle 65 or less, so
\* checkConverterAlerts drafts neither alert for it.
C24_CriticalAlertsUnreachable ==
    reading # NoReading =>
        /\ RLe(RInt(85), reading[1].converter.efficiency)
        /\ RLe(reading[1].converter.dutyCycle, RInt(65))
        /\ ~efficiencyTooLow(reading[1].converter.efficiency)
        /\ ~dutyCycleTooHigh(reading[1].converter.dutyCycle)
        /\ countTitle(converterDrafts(reading[1].converter),
                      "Critical Efficiency Drop") = 0
        /\ countTitle(converterDrafts(reading[1].converter),
                      "Critical Duty Cycle") = 0

\* a reading off the optimal load with the lowest noise, at a duty cycle
\* above the minimum: its only draft is that of the output voltage
C24_Witness ==
    /\ reading # NoReading
    /\ RLt(reading[1].converter.efficiency, RInt(95))
    /\ RLt(RInt(40), reading[1].converter.dutyCycle)
    /\ titlesOf(converterDrafts(reading[1].converter)) =
          << "Output Voltage Out of Range" >>

\* C25: in script.js, where only generateRandomAlert adds alerts, the store
\* holds at most 5 alerts in every state, whatever the order of interval
\* callbacks, dismissAlert and clearAlerts after the three alerts the script
\* starts with.
C25_BaselineStoreCapped ==
    script = "script.js" => Len(systemAlerts) <= 5

\* generateRandomAlert of script.js, with a draw below 0.1, has left a store
\* of five alerts as it was
C25_Witness ==
    /\ script = "script.js"
    /\ last.op = "tick"
    /\ RLt(last.draw, R(1, 10))
    /\ ~last.fired
    /\ last.sizeAtInjector = 5
    /\ Len(systemAlerts) = 5

\* C26: the store is ordered by time, newest first, in every state: from
\* index 0 on the timestamps never increase, whatever interval callbacks,
\* insertions, dismissals and clears have happened since the script started
\* with alerts dated 1 hour, 2 hours and 1 day before.
C26_NewestFirst ==
    \A i \in 1 .. Len(systemAlerts) - 1 :
       systemAlerts[i].timestamp >= systemAlerts[i + 1].timestamp

\* after interval callbacks and a dismissal the store holds alerts of the
\* last callback, of an earlier step and of the start of the script
C26_Witness ==
    /\ calls >= 1
    /\ ticks >= 2
    /\ Len(systemAlerts) >= 4
    /\ systemAlerts[1].timestamp = now
    /\ \E i \in 2 .. Len(systemAlerts) - 1 :
          /\ systemAlerts[i].timestamp < now
          /\ systemAlerts[i].timestamp > systemAlerts[Len(systemAlerts)].timestamp
    /\ \E t \in LoadTimes : systemAlerts[Len(systemAlerts)].timestamp = t - 86400000

\* a sequence back to front
reversed(seq) == [ i \in 1 .. Len(seq) |-> seq[Len(seq) + 1 - i] ]

\* C27: the drafts of one evaluation, two or more, are put at the front of
\* the store one after the other in the order of the rules, so they stand
\* there in the opposite order, before what the store held: for a reading
\* that breaks all three rules the store begins with 'Critical Duty Cycle',
\* 'Output Voltage Out of Range', 'Critical Efficiency Drop'.
C27_DraftsInReverseOrder ==
    [][ last'.op = "check" /\ Len(last'.drafts) >= 2 =>
          LET k == Len(last'.drafts)
          IN  /\ Len(systemAlerts') = k + Len(systemAlerts)
              /\ titlesOf(SubSeq(systemAlerts', 1, k)) = reversed(titlesOf(last'.drafts))
              /\ SubSeq(systemAlerts', k + 1, Len(systemAlerts')) = systemAlerts
              /\ k = 3 => titlesOf(SubSeq(systemAlerts', 1, 3)) =
                            << "Critical Duty Cycle", "Output Voltage Out of Range",
                               "Critical Efficiency Drop" >> ]_vars

\* the three alerts of a reading that breaks all three rules are at the
\* front of the store, the one of the duty cycle first
C27_Witness ==
    /\ last.op = "check"
    /\ Len(last.drafts) = 3
    /\ Len(systemAlerts) > 3
    /\ titlesOf(SubSeq(systemAlerts, 1, 3)) =
          << "Critical Duty Cycle", "Output Voltage Out of Range",
             "Critical Efficiency Drop" >>
    /\ systemAlerts[4].title = "Output Voltage Out of Range"

\* two alerts of a reading that breaks two rules are at the front of the
\* store
C27_WitnessTwo ==
    /\ last.op = "check"
    /\ Len(last.drafts) = 2
    /\ titlesOf(SubSeq(systemAlerts, 1, 2)) = reversed(titlesOf(last.drafts))
    /\ systemAlerts[1].title # systemAlerts[2].title

====
